---- MODULE Spec2Model ----
(***************************************************************************)
(* State-machine model of c_src/vosk_nif.c: the Erlang NIF layer that      *)
(* wraps the Vosk speech-recognition engine.                               *)
(*                                                                         *)
(* The model covers the two resource kinds (ModelResource and              *)
(* RecognizerResource), their reference counts as the Erlang runtime       *)
(* keeps them, the destructor callbacks, the twelve exported functions of  *)
(* nif_funcs and the load callback.  The engine itself (vosk_api.h) is an  *)
(* external collaborator: its constructors may return NULL, its status     *)
(* codes and lookups are nondeterministic.                                 *)
(***************************************************************************)
EXTENDS Integers, Sequences, FiniteSets, TLC

\* ------------------------------------------------------------------ bounds
\* Number of resource objects (and native engine objects) ever allocated: a
\* model and two recognizers created from it.
MaxRes == 3
\* Number of terms referring to one resource that host processes hold.
MaxHeld == 2
\* Number of times the runtime may invoke a destructor callback on one resource.
MaxDtorRuns == 2
\* Number of accept_waveform calls executing on dirty workers per recognizer.
MaxInflight == 1
\* Number of audio chunks a recognizer decodes between two results or resets.
MaxFed == MaxInflight

\* -------------------------------------------------------- program constants
\* The C null pointer.
NULL == 0
\* char path[1024]
PATH_CAP == 1024
\* char word[256]
WORD_CAP == 256
\* Range of the C int that enif_get_int converts to.  The int is modelled 16
\* bits wide (TLC's integers are 32 bits wide, so a 32-bit int would leave no
\* room for a term that does not fit it); a size_t is twice as wide.
INT_MAX == 32767
INT_MIN == -32768
\* The two resource types that load registers (opaque non-null pointers).
MODEL_RT == 1
RECOGNIZER_RT == 2
\* int log_level = -1 in load
SILENT == -1

ResIds == 1..MaxRes

\* ------------------------------------------------------------ Erlang terms
\* A term is a tagged value.  A binary is described by its byte size and a
\* seed that determines its bytes, so that large binaries stay small values.
IntTerm(v) == [tag |-> "int", val |-> <<v>>]
FloatTerm(v) == [tag |-> "float", val |-> <<v>>]
AtomTerm(a) == [tag |-> "atom", val |-> <<a>>]
BinTerm(size, seed) == [tag |-> "binary", val |-> <<size, seed>>]
ResTerm(r) == [tag |-> "resource", val |-> <<r>>]

\* The byte at (0-based) offset i of a binary: seed 0 is an all-NUL binary,
\* any other seed gives non-NUL bytes that differ from offset to offset.
ByteAt(bin, i) == IF bin.val[2] = 0 THEN 0 ELSE ((i + bin.val[2]) % 255) + 1
BinSize(bin) == bin.val[1]

\* ------------------------------------------------------------------ state
VARIABLES
    loadState,        \* "unloaded", "loaded" or "failed": outcome of the load callback;
                      \* "aborted" once the emulator process has been killed
    MODEL_TYPE,       \* static ErlNifResourceType* MODEL_TYPE (NULL until opened)
    RECOGNIZER_TYPE,  \* static ErlNifResourceType* RECOGNIZER_TYPE
    logLevel,         \* the engine's log level, as last set by vosk_set_log_level
    rtype,            \* resource object -> its resource type (NULL: never allocated)
    ptr,              \* resource object -> res->model / res->recognizer
    refc,             \* resource object -> reference count kept by the runtime
    held,             \* resource object -> number of terms host processes hold
    dtorRuns,         \* resource object -> number of destructor invocations so far
    native,           \* engine object -> its state inside the engine
    inflight,         \* resource object -> audio of the accept_waveform calls executing
    last              \* the most recent callback: name, arguments, result, engine calls

vars == <<loadState, MODEL_TYPE, RECOGNIZER_TYPE, logLevel, rtype, ptr, refc, held,
          dtorRuns, native, inflight, last>>

resVars == <<rtype, ptr, refc, held, dtorRuns, native, inflight>>
loadVars == <<loadState, MODEL_TYPE, RECOGNIZER_TYPE>>

\* An engine object that was never constructed.
NoNative == [kind |-> "none", frees |-> 0, model |-> NULL,
             max_alternatives |-> 0, words |-> 0, partial_words |-> 0, fed |-> 0]

\* The flag that makes the runtime execute a function on a dirty CPU scheduler.
ERL_NIF_DIRTY_JOB_CPU_BOUND == 1

\* A table in which no function is flagged.
nif_funcs_inline ==
    [set_log_level |-> 0, load_model |-> 0, find_word |-> 0, create_recognizer |-> 0,
     set_max_alternatives |-> 0, set_words |-> 0, set_partial_words |-> 0,
     accept_waveform |-> 0, get_result |-> 0, get_partial_result |-> 0,
     get_final_result |-> 0, reset_recognizer |-> 0]

\* static ErlNifFunc nif_funcs[]: the flags of every exported function.
nif_funcs ==
    [set_log_level |-> 0, load_model |-> 0, find_word |-> 0, create_recognizer |-> 0,
     set_max_alternatives |-> 0, set_words |-> 0, set_partial_words |-> 0,
     accept_waveform |-> ERL_NIF_DIRTY_JOB_CPU_BOUND, get_result |-> 0,
     get_partial_result |-> 0, get_final_result |-> 0, reset_recognizer |-> 0]

\* The thread a callback executes on: an exported function on a dirty CPU
\* scheduler when flagged and on the calling process's scheduler otherwise (the
\* return of accept_waveform belongs to the same call); load and the
\* destructors wherever the runtime runs them.
ThreadOf(op) ==
    LET fn == IF op = "accept_waveform_return" THEN "accept_waveform" ELSE op
    IN  IF fn \notin DOMAIN nif_funcs THEN "runtime"
        ELSE IF nif_funcs[fn] = ERL_NIF_DIRTY_JOB_CPU_BOUND THEN "dirty_cpu"
        ELSE "scheduler"

\* A scheduler thread is occupied from the start to the return of a function
\* that executes on it. Only accept_waveform lasts long enough for anything to
\* be scheduled meanwhile; the other functions return at once.
SchedulerBusy ==
    \E r \in ResIds : inflight[r] # <<>> /\ ThreadOf("accept_waveform") = "scheduler"

\* Whether a call of the function can start now: at once on a dirty CPU
\* scheduler, and on the scheduler thread once that thread is free.
Scheduled(op) == ThreadOf(op) = "dirty_cpu" \/ ~SchedulerBusy

\* What a callback leaves behind for the observer: its name, its arguments, the
\* value it returns, the engine functions it called, in order, and the thread
\* it executed on.
Outcome(op, args, ret, calls) ==
    [op |-> op, args |-> args, ret |-> ret, calls |-> calls, thread |-> ThreadOf(op)]

\* One call into the engine: the function, the handle pointer passed (NULL when
\* the function takes none), the remaining arguments and what the engine
\* returned (<<>> for a void function or a call that has not returned yet).
Call(fn, p, arg, out) == [fn |-> fn, ptr |-> p, arg |-> arg, out |-> out]

\* Return values.
Badarg == [tag |-> "badarg", val |-> <<>>]
Ok == AtomTerm("ok")
Pending == [tag |-> "pending", val |-> <<>>]
NoValue == [tag |-> "void", val |-> <<>>]
Tuple2(a, b) == [tag |-> "tuple", val |-> <<a, b>>]

Init ==
    /\ loadState = "unloaded"
    /\ MODEL_TYPE = NULL
    /\ RECOGNIZER_TYPE = NULL
    /\ logLevel = 0
    /\ rtype = [r \in ResIds |-> NULL]
    /\ ptr = [r \in ResIds |-> NULL]
    /\ refc = [r \in ResIds |-> 0]
    /\ held = [r \in ResIds |-> 0]
    /\ dtorRuns = [r \in ResIds |-> 0]
    /\ native = [n \in ResIds |-> NoNative]
    /\ inflight = [r \in ResIds |-> <<>>]
    /\ last = Outcome("none", <<>>, NoValue, <<>>)

\* ------------------------------------------------------- erl_nif primitives
\* enif_get_int: succeeds on an integer term that fits a C int.
enif_get_int(t) == t.tag = "int" /\ t.val[1] >= INT_MIN /\ t.val[1] <= INT_MAX

\* enif_get_double: succeeds on a float term only (an integer term is refused).
enif_get_double(t) == t.tag = "float"

\* enif_inspect_binary: succeeds on a binary term.
enif_inspect_binary(t) == t.tag = "binary"

\* enif_get_resource as it would behave with one resource type for both kinds.
enif_get_resource_any(t, type) ==
    /\ t.tag = "resource"
    /\ type # NULL

\* enif_get_resource(env, term, type, &obj): succeeds when the term is a
\* resource term whose object was allocated with the given (non-null) type.
enif_get_resource(t, type) ==
    /\ t.tag = "resource"
    /\ type # NULL
    /\ rtype[t.val[1]] = type

\* enif_alloc_resource returns an object with one reference, owned by the caller.
enif_alloc_resource == 1
\* enif_make_resource: the new term holds a reference of its own.
enif_make_resource(c) == c + 1
\* enif_release_resource called twice on the new object.
enif_release_twice(c) == c - 2
\* enif_release_resource left out.
enif_release_forgotten(c) == c

\* enif_release_resource gives up the caller's reference.
enif_release_resource(c) == c - 1

\* The resource object enif_alloc_resource hands out next.
FreeRes == {r \in ResIds : rtype[r] = NULL}
NewRes == CHOOSE r \in FreeRes : \A q \in FreeRes : r <= q

\* The engine object a successful constructor returns next.
FreeNative == {n \in ResIds : native[n].kind = "none"}
NewNative == CHOOSE n \in FreeNative : \A q \in FreeNative : n <= q

\* The outcomes of an engine constructor: NULL, or a fresh engine object while
\* fewer than lim resource objects exist.
Constructed(lim) ==
    {NULL} \cup (IF FreeRes # {} /\ FreeNative # {} /\ MaxRes - Cardinality(FreeRes) < lim
                 THEN {NewNative} ELSE {})

\* ------------------------------------------------------ the engine (vosk_api)
\* vosk_model_free / vosk_recognizer_free: one more release of engine object p.
vosk_free(p) == [native EXCEPT ![p].frees = @ + 1]

\* vosk_model_new returned p: a model object inside the engine.
vosk_model_new(p) == [native EXCEPT ![p] = [NoNative EXCEPT !.kind = "model"]]

\* vosk_recognizer_new(model, rate) returned p: a recognizer that uses model m.
vosk_recognizer_new(p, m) ==
    [native EXCEPT ![p] = [NoNative EXCEPT !.kind = "recognizer", !.model = m]]

vosk_recognizer_set_max_alternatives(p, v) == [native EXCEPT ![p].max_alternatives = v]
\* The option stored with the model, and so set for every recognizer of it.
vosk_recognizer_set_words_model(p, v) ==
    [q \in DOMAIN native |->
        IF native[q].kind = "recognizer" /\ native[q].model = native[p].model
        THEN [native[q] EXCEPT !.words = v] ELSE native[q]]
vosk_recognizer_set_words(p, v) == [native EXCEPT ![p].words = v]
vosk_recognizer_set_partial_words(p, v) == [native EXCEPT ![p].partial_words = v]

\* ------------------------------------------------------------- destructors
\* model_destructor without the line res->model = NULL.
model_destructor_keep(r) ==
    IF ptr[r] # NULL
    THEN /\ native' = vosk_free(ptr[r])
         /\ last' = Outcome("model_destructor", <<ResTerm(r)>>, NoValue,
                            <<Call("vosk_model_free", ptr[r], <<>>, <<>>)>>)
         /\ UNCHANGED ptr
    ELSE /\ last' = Outcome("model_destructor", <<ResTerm(r)>>, NoValue, <<>>)
         /\ UNCHANGED <<native, ptr>>

\* static void model_destructor(ErlNifEnv* env, void* obj)
model_destructor(r) ==
    IF ptr[r] # NULL
    THEN /\ native' = vosk_free(ptr[r])
         /\ ptr' = [ptr EXCEPT ![r] = NULL]
         /\ last' = Outcome("model_destructor", <<ResTerm(r)>>, NoValue,
                            <<Call("vosk_model_free", ptr[r], <<>>, <<>>)>>)
    ELSE /\ last' = Outcome("model_destructor", <<ResTerm(r)>>, NoValue, <<>>)
         /\ UNCHANGED <<native, ptr>>

\* static void recognizer_destructor(ErlNifEnv* env, void* obj)
recognizer_destructor(r) ==
    IF ptr[r] # NULL
    THEN /\ native' = vosk_free(ptr[r])
         /\ ptr' = [ptr EXCEPT ![r] = NULL]
         /\ last' = Outcome("recognizer_destructor", <<ResTerm(r)>>, NoValue,
                            <<Call("vosk_recognizer_free", ptr[r], <<>>, <<>>)>>)
    ELSE /\ last' = Outcome("recognizer_destructor", <<ResTerm(r)>>, NoValue, <<>>)
         /\ UNCHANGED <<native, ptr>>

\* The destructor registered for the resource's type (enif_open_resource_type).
Destructor(r) ==
    IF rtype[r] = MODEL_RT THEN model_destructor(r) ELSE recognizer_destructor(r)

\* The runtime runs the destructor of a resource object once nothing refers to it.
GCDestructor(r) ==
    /\ loadState = "loaded"
    /\ rtype[r] # NULL
    /\ refc[r] = 0
    /\ dtorRuns[r] = 0
    /\ Destructor(r)
    /\ dtorRuns' = [dtorRuns EXCEPT ![r] = 1]
    /\ UNCHANGED <<loadVars, logLevel, rtype, refc, held, inflight>>

\* The destructor callback invoked again on an object it already ran for (the
\* case the NULL guard of the destructors is written for).
DestructorAgain(r) ==
    /\ loadState = "loaded"
    /\ rtype[r] # NULL
    /\ dtorRuns[r] >= 1
    /\ dtorRuns[r] < MaxDtorRuns
    /\ Destructor(r)
    /\ dtorRuns' = [dtorRuns EXCEPT ![r] = @ + 1]
    /\ UNCHANGED <<loadVars, logLevel, rtype, refc, held, inflight>>

\* ------------------------------------------------------------ host processes
\* A process sends or copies a handle term: one more term refers to the object.
HostCopy(r) ==
    /\ loadState = "loaded"
    /\ held[r] >= 1
    /\ held[r] < MaxHeld
    /\ held' = [held EXCEPT ![r] = @ + 1]
    /\ refc' = [refc EXCEPT ![r] = @ + 1]
    /\ UNCHANGED <<loadVars, logLevel, rtype, ptr, dtorRuns, native, inflight, last>>

\* A process drops a handle term (garbage collection of the term, or the process
\* exits): one term fewer refers to the object.
HostDrop(r) ==
    /\ loadState = "loaded"
    /\ held[r] >= 1
    /\ held' = [held EXCEPT ![r] = @ - 1]
    /\ refc' = [refc EXCEPT ![r] = @ - 1]
    /\ UNCHANGED <<loadVars, logLevel, rtype, ptr, dtorRuns, native, inflight, last>>

\* ---------------------------------------------------------------------- load
\* load with the variable left as it was declared when load_info is no int.
load_log_level_zero(load_info) == IF enif_get_int(load_info) THEN load_info.val[1] ELSE 0

\* int log_level = -1; if (!enif_get_int(env, load_info, &log_level)) log_level = -1;
load_log_level(load_info) == IF enif_get_int(load_info) THEN load_info.val[1] ELSE SILENT

\* load with only the first of the two registrations compared with NULL.
load_result_first(mt, rt) == IF mt = NULL THEN 1 ELSE 0

\* if (MODEL_TYPE == NULL || RECOGNIZER_TYPE == NULL) return 1; return 0;
load_result(mt, rt) == IF mt = NULL \/ rt = NULL THEN 1 ELSE 0

\* static int load(ErlNifEnv* env, void** priv_data, ERL_NIF_TERM load_info)
\* mt and rt are what the two enif_open_resource_type calls return. The runtime
\* loads the module, and so makes its functions callable, when load returns 0.
load(load_info, mt, rt) ==
    /\ loadState = "unloaded"
    /\ LET log_level == load_log_level(load_info)
       IN  /\ logLevel' = log_level
           /\ MODEL_TYPE' = mt
           /\ RECOGNIZER_TYPE' = rt
           /\ loadState' = IF load_result(mt, rt) = 0 THEN "loaded" ELSE "failed"
           /\ last' = Outcome("load", <<load_info>>, IntTerm(load_result(mt, rt)),
                              <<Call("vosk_set_log_level", NULL, <<log_level>>, <<>>)>>)
    /\ UNCHANGED resVars

\* ------------------------------------------------------------ set_log_level
\* static ERL_NIF_TERM set_log_level_nif(env, argc, argv)
set_log_level_nif(a0) ==
    /\ loadState = "loaded"
    /\ Scheduled("set_log_level")
    /\ IF ~enif_get_int(a0)
       THEN /\ last' = Outcome("set_log_level", <<a0>>, Badarg, <<>>)
            /\ UNCHANGED logLevel
       ELSE /\ logLevel' = a0.val[1]
            /\ last' = Outcome("set_log_level", <<a0>>, Ok,
                               <<Call("vosk_set_log_level", NULL, <<a0.val[1]>>, <<>>)>>)
    /\ UNCHANGED <<loadVars, resVars>>

\* --------------------------------------------------------- string marshaling
\* The length check written with > in place of >=.
too_large_off_by_one(size, cap) == size > cap

\* if (path_bin.size >= sizeof(path)) / if (word_bin.size >= sizeof(word))
too_large(size, cap) == size >= cap

\* memcpy(buf, bin.data, n): the bytes written, by (0-based) index.
memcpy(bin, n) == [i \in 0..(n - 1) |-> ByteAt(bin, i)]

\* buf[at] = '\0' on top of what memcpy wrote.
terminate(mem, at) ==
    [i \in (DOMAIN mem) \cup {at} |-> IF i = at THEN 0 ELSE mem[i]]

\* The terminator written at the last index of the array, not after the bytes.
c_string_end(bin, cap) ==
    [cap |-> cap, mem |-> terminate(memcpy(bin, BinSize(bin)), cap - 1)]

\* The scratch buffer handed to the engine: its capacity and the bytes the
\* function wrote into it (the other bytes of the array are uninitialised).
c_string(bin, cap) ==
    [cap |-> cap, mem |-> terminate(memcpy(bin, BinSize(bin)), BinSize(bin))]

\* The NULL check of a constructor's result left out.
is_null_never(p) == FALSE

\* if (model == NULL) / if (rec == NULL)
is_null(p) == p = NULL

\* ---------------------------------------------------------------- load_model
\* A store or a read through a null pointer: the emulator process is killed by
\* the memory fault, and no value is returned to the caller.
Crash == [tag |-> "crash", val |-> <<>>]
Aborted(ret) == ret.tag = "crash"

\* static ERL_NIF_TERM load_model_nif(env, argc, argv); res_ok is whether
\* enif_alloc_resource returns memory. Its result is not compared with NULL
\* before res->model is stored through it.
load_model_nif(a0, lim, res_ok) ==
    /\ loadState = "loaded"
    /\ Scheduled("load_model")
    /\ IF ~enif_inspect_binary(a0)
       THEN /\ last' = Outcome("load_model", <<a0>>, Badarg, <<>>)
            /\ UNCHANGED resVars
       ELSE IF too_large(BinSize(a0), PATH_CAP)
       THEN /\ last' = Outcome("load_model", <<a0>>, Badarg, <<>>)
            /\ UNCHANGED resVars
       ELSE \E model \in Constructed(lim) :
            LET call == Call("vosk_model_new", NULL, <<c_string(a0, PATH_CAP)>>, <<model>>)
                res == NewRes
            IN  /\ native' = IF model = NULL THEN native ELSE vosk_model_new(model)
                /\ IF is_null(model)
                   THEN /\ last' = Outcome("load_model", <<a0>>,
                                           Tuple2(AtomTerm("error"), AtomTerm("model_load_failed")),
                                           <<call>>)
                        /\ UNCHANGED <<rtype, ptr, refc, held>>
                   ELSE IF ~res_ok
                   THEN /\ last' = Outcome("load_model", <<a0>>, Crash, <<call>>)
                        /\ UNCHANGED <<rtype, ptr, refc, held>>
                   ELSE /\ FreeRes # {}
                        /\ rtype' = [rtype EXCEPT ![res] = MODEL_TYPE]
                        /\ ptr' = [ptr EXCEPT ![res] = model]
                        /\ refc' = [refc EXCEPT ![res] =
                               enif_release_resource(enif_make_resource(enif_alloc_resource))]
                        /\ held' = [held EXCEPT ![res] = 1]
                        /\ last' = Outcome("load_model", <<a0>>,
                                           Tuple2(AtomTerm("ok"), ResTerm(res)), <<call>>)
                /\ UNCHANGED <<dtorRuns, inflight>>
    /\ loadState' = IF Aborted(last'.ret) THEN "aborted" ELSE loadState
    /\ UNCHANGED <<MODEL_TYPE, RECOGNIZER_TYPE, logLevel>>

\* ----------------------------------------------------------------- find_word
\* static ERL_NIF_TERM find_word_nif(env, argc, argv); idx is what the engine's
\* vosk_model_find_word returns.
find_word_nif(a0, a1, idx) ==
    /\ loadState = "loaded"
    /\ Scheduled("find_word")
    /\ IF ~enif_get_resource(a0, MODEL_TYPE) \/ ~enif_inspect_binary(a1)
       THEN last' = Outcome("find_word", <<a0, a1>>, Badarg, <<>>)
       ELSE IF too_large(BinSize(a1), WORD_CAP)
       THEN last' = Outcome("find_word", <<a0, a1>>, Badarg, <<>>)
       ELSE last' = Outcome("find_word", <<a0, a1>>, IntTerm(idx),
                            <<Call("vosk_model_find_word", ptr[a0.val[1]],
                                   <<c_string(a1, WORD_CAP)>>, <<idx>>)>>)
    /\ UNCHANGED <<loadVars, logLevel, resVars>>

\* --------------------------------------------------------- create_recognizer
\* static ERL_NIF_TERM create_recognizer_nif(env, argc, argv); res_ok as in
\* load_model_nif, for the store to res->recognizer.
create_recognizer_nif(a0, a1, lim, res_ok) ==
    /\ loadState = "loaded"
    /\ Scheduled("create_recognizer")
    /\ IF ~enif_get_resource(a0, MODEL_TYPE) \/ ~enif_get_double(a1)
       THEN /\ last' = Outcome("create_recognizer", <<a0, a1>>, Badarg, <<>>)
            /\ UNCHANGED resVars
       ELSE \E rec \in Constructed(lim) :
            LET model == ptr[a0.val[1]]
                call == Call("vosk_recognizer_new", model, <<a1.val[1]>>, <<rec>>)
                res == NewRes
            IN  /\ native' = IF rec = NULL THEN native ELSE vosk_recognizer_new(rec, model)
                /\ IF is_null(rec)
                   THEN /\ last' = Outcome("create_recognizer", <<a0, a1>>,
                                           Tuple2(AtomTerm("error"),
                                                  AtomTerm("recognizer_creation_failed")),
                                           <<call>>)
                        /\ UNCHANGED <<rtype, ptr, refc, held>>
                   ELSE IF ~res_ok
                   THEN /\ last' = Outcome("create_recognizer", <<a0, a1>>, Crash, <<call>>)
                        /\ UNCHANGED <<rtype, ptr, refc, held>>
                   ELSE /\ FreeRes # {}
                        /\ rtype' = [rtype EXCEPT ![res] = RECOGNIZER_TYPE]
                        /\ ptr' = [ptr EXCEPT ![res] = rec]
                        /\ refc' = [refc EXCEPT ![res] =
                               enif_release_resource(enif_make_resource(enif_alloc_resource))]
                        /\ held' = [held EXCEPT ![res] = 1]
                        /\ last' = Outcome("create_recognizer", <<a0, a1>>,
                                           Tuple2(AtomTerm("ok"), ResTerm(res)), <<call>>)
                /\ UNCHANGED <<dtorRuns, inflight>>
    /\ loadState' = IF Aborted(last'.ret) THEN "aborted" ELSE loadState
    /\ UNCHANGED <<MODEL_TYPE, RECOGNIZER_TYPE, logLevel>>

\* ------------------------------------------------------- recognizer setters
\* static ERL_NIF_TERM set_max_alternatives_nif(env, argc, argv)
set_max_alternatives_nif(a0, a1) ==
    /\ loadState = "loaded"
    /\ Scheduled("set_max_alternatives")
    /\ IF ~enif_get_resource(a0, RECOGNIZER_TYPE) \/ ~enif_get_int(a1)
       THEN /\ last' = Outcome("set_max_alternatives", <<a0, a1>>, Badarg, <<>>)
            /\ UNCHANGED native
       ELSE LET rec == ptr[a0.val[1]]
            IN  /\ native' = vosk_recognizer_set_max_alternatives(rec, a1.val[1])
                /\ last' = Outcome("set_max_alternatives", <<a0, a1>>, Ok,
                                   <<Call("vosk_recognizer_set_max_alternatives", rec,
                                          <<a1.val[1]>>, <<>>)>>)
    /\ UNCHANGED <<loadVars, logLevel, rtype, ptr, refc, held, dtorRuns, inflight>>

\* set_words_nif with the engine call made once the handle resolves, before the
\* flag is checked: the engine receives the uninitialised int.
set_words_nif_eager(a0, a1) ==
    /\ loadState = "loaded"
    /\ Scheduled("set_words")
    /\ IF ~enif_get_resource(a0, RECOGNIZER_TYPE)
       THEN /\ last' = Outcome("set_words", <<a0, a1>>, Badarg, <<>>)
            /\ UNCHANGED native
       ELSE \E words \in IF enif_get_int(a1) THEN {a1.val[1]} ELSE {0, 1} :
            LET rec == ptr[a0.val[1]]
            IN  /\ native' = [native EXCEPT ![rec].words = words]
                /\ last' = Outcome("set_words", <<a0, a1>>,
                                   IF enif_get_int(a1) THEN Ok ELSE Badarg,
                                   <<Call("vosk_recognizer_set_words", rec, <<words>>, <<>>)>>)
    /\ UNCHANGED <<loadVars, logLevel, rtype, ptr, refc, held, dtorRuns, inflight>>

\* set_words_nif refusing the option once the recognizer has been given audio.
set_words_nif_configuring(a0, a1) ==
    /\ loadState = "loaded"
    /\ Scheduled("set_words")
    /\ IF \/ ~enif_get_resource(a0, RECOGNIZER_TYPE) \/ ~enif_get_int(a1)
          \/ native[ptr[a0.val[1]]].fed > 0
       THEN /\ last' = Outcome("set_words", <<a0, a1>>, Badarg, <<>>)
            /\ UNCHANGED native
       ELSE LET rec == ptr[a0.val[1]]
            IN  /\ native' = vosk_recognizer_set_words(rec, a1.val[1])
                /\ last' = Outcome("set_words", <<a0, a1>>, Ok,
                                   <<Call("vosk_recognizer_set_words", rec, <<a1.val[1]>>, <<>>)>>)
    /\ UNCHANGED <<loadVars, logLevel, rtype, ptr, refc, held, dtorRuns, inflight>>

\* static ERL_NIF_TERM set_words_nif(env, argc, argv)
set_words_nif(a0, a1) ==
    /\ loadState = "loaded"
    /\ Scheduled("set_words")
    /\ IF ~enif_get_resource(a0, RECOGNIZER_TYPE) \/ ~enif_get_int(a1)
       THEN /\ last' = Outcome("set_words", <<a0, a1>>, Badarg, <<>>)
            /\ UNCHANGED native
       ELSE LET rec == ptr[a0.val[1]]
            IN  /\ native' = vosk_recognizer_set_words(rec, a1.val[1])
                /\ last' = Outcome("set_words", <<a0, a1>>, Ok,
                                   <<Call("vosk_recognizer_set_words", rec, <<a1.val[1]>>, <<>>)>>)
    /\ UNCHANGED <<loadVars, logLevel, rtype, ptr, refc, held, dtorRuns, inflight>>

\* static ERL_NIF_TERM set_partial_words_nif(env, argc, argv)
set_partial_words_nif(a0, a1) ==
    /\ loadState = "loaded"
    /\ Scheduled("set_partial_words")
    /\ IF ~enif_get_resource(a0, RECOGNIZER_TYPE) \/ ~enif_get_int(a1)
       THEN /\ last' = Outcome("set_partial_words", <<a0, a1>>, Badarg, <<>>)
            /\ UNCHANGED native
       ELSE LET rec == ptr[a0.val[1]]
            IN  /\ native' = vosk_recognizer_set_partial_words(rec, a1.val[1])
                /\ last' = Outcome("set_partial_words", <<a0, a1>>, Ok,
                                   <<Call("vosk_recognizer_set_partial_words", rec,
                                          <<a1.val[1]>>, <<>>)>>)
    /\ UNCHANGED <<loadVars, logLevel, rtype, ptr, refc, held, dtorRuns, inflight>>

\* ----------------------------------------------------------- accept_waveform
\* The size_t audio_data.size converted to the int length parameter of
\* vosk_recognizer_accept_waveform.
int_of_size(size) == ((size + INT_MAX + 1) % (2 * (INT_MAX + 1))) - (INT_MAX + 1)

\* A call that gives its reference away (enif_release_resource on the argument).
argv_ref_released(c) == c

\* While a call executes, its argument term keeps the resource referenced.
argv_ref(c) == c + 1
\* When the call returns, its argument term is no longer used.
argv_unref(c) == c - 1

\* The engine has consumed one more chunk of audio.
vosk_recognizer_accept_waveform(p) == [native EXCEPT ![p].fed = @ + 1]

\* static ERL_NIF_TERM accept_waveform_nif(env, argc, argv), entered on a dirty
\* CPU worker: the argument checks, then the engine call starts.
accept_waveform_nif(a0, a1) ==
    /\ loadState = "loaded"
    /\ Scheduled("accept_waveform")
    /\ IF ~enif_get_resource(a0, RECOGNIZER_TYPE) \/ ~enif_inspect_binary(a1)
       THEN /\ last' = Outcome("accept_waveform", <<a0, a1>>, Badarg, <<>>)
            /\ UNCHANGED <<refc, inflight>>
       ELSE LET r == a0.val[1]
            IN  /\ Len(inflight[r]) < MaxInflight
                /\ native[ptr[r]].fed + Len(inflight[r]) < MaxFed
                /\ inflight' = [inflight EXCEPT ![r] = Append(@, a1)]
                /\ refc' = [refc EXCEPT ![r] = argv_ref(@)]
                /\ last' = Outcome("accept_waveform", <<a0, a1>>, Pending,
                                   <<Call("vosk_recognizer_accept_waveform", ptr[r],
                                          <<int_of_size(BinSize(a1))>>, <<>>)>>)
    /\ UNCHANGED <<loadVars, logLevel, rtype, ptr, held, dtorRuns, native>>

\* The engine call of accept_waveform_nif on resource r completes with the given
\* status and the function returns enif_make_int(env, result).
accept_waveform_return(r, status) ==
    /\ loadState = "loaded"
    /\ inflight[r] # <<>>
    /\ native' = vosk_recognizer_accept_waveform(ptr[r])
    /\ inflight' = [inflight EXCEPT ![r] = Tail(@)]
    /\ refc' = [refc EXCEPT ![r] = argv_unref(@)]
    /\ last' = Outcome("accept_waveform_return", <<ResTerm(r), Head(inflight[r])>>,
                       IntTerm(status), <<>>)
    /\ UNCHANGED <<loadVars, logLevel, rtype, ptr, held, dtorRuns>>

\* -------------------------------------------------------------------- results
\* enif_make_string(env, result, ERL_NIF_UTF8) of the engine's JSON text, which
\* is determined by the kind of result and the audio decoded so far.
enif_make_string(kind, p) == [tag |-> "string", val |-> <<kind, native[p].fed>>]

\* The const char* an engine result function returns: the text, or NULL.
ResultText(text_ok) == IF text_ok THEN "text" ELSE "NULL"

\* return enif_make_string(env, result, ERL_NIF_UTF8): result is not compared
\* with NULL, and enif_make_string reads the characters it points to.
make_result(kind, p, text_ok) == IF text_ok THEN enif_make_string(kind, p) ELSE Crash

\* vosk_recognizer_result / vosk_recognizer_final_result / vosk_recognizer_reset
\* leave the decoder with no pending audio.
vosk_recognizer_clear(p) == [native EXCEPT ![p].fed = 0]

\* static ERL_NIF_TERM get_result_nif(env, argc, argv)
get_result_nif(a0, text_ok) ==
    /\ loadState = "loaded"
    /\ Scheduled("get_result")
    /\ IF ~enif_get_resource(a0, RECOGNIZER_TYPE)
       THEN /\ last' = Outcome("get_result", <<a0>>, Badarg, <<>>)
            /\ UNCHANGED native
       ELSE LET rec == ptr[a0.val[1]]
            IN  /\ native' = vosk_recognizer_clear(rec)
                /\ last' = Outcome("get_result", <<a0>>, make_result("result", rec, text_ok),
                                   <<Call("vosk_recognizer_result", rec, <<>>, <<ResultText(text_ok)>>)>>)
    /\ loadState' = IF Aborted(last'.ret) THEN "aborted" ELSE loadState
    /\ UNCHANGED <<MODEL_TYPE, RECOGNIZER_TYPE, logLevel, rtype, ptr, refc, held, dtorRuns, inflight>>

\* static ERL_NIF_TERM get_partial_result_nif(env, argc, argv)
get_partial_result_nif(a0, text_ok) ==
    /\ loadState = "loaded"
    /\ Scheduled("get_partial_result")
    /\ IF ~enif_get_resource(a0, RECOGNIZER_TYPE)
       THEN last' = Outcome("get_partial_result", <<a0>>, Badarg, <<>>)
       ELSE LET rec == ptr[a0.val[1]]
            IN  last' = Outcome("get_partial_result", <<a0>>, make_result("partial", rec, text_ok),
                                <<Call("vosk_recognizer_partial_result", rec, <<>>, <<ResultText(text_ok)>>)>>)
    /\ loadState' = IF Aborted(last'.ret) THEN "aborted" ELSE loadState
    /\ UNCHANGED <<MODEL_TYPE, RECOGNIZER_TYPE, logLevel, resVars>>

\* static ERL_NIF_TERM get_final_result_nif(env, argc, argv)
get_final_result_nif(a0, text_ok) ==
    /\ loadState = "loaded"
    /\ Scheduled("get_final_result")
    /\ IF ~enif_get_resource(a0, RECOGNIZER_TYPE)
       THEN /\ last' = Outcome("get_final_result", <<a0>>, Badarg, <<>>)
            /\ UNCHANGED native
       ELSE LET rec == ptr[a0.val[1]]
            IN  /\ native' = vosk_recognizer_clear(rec)
                /\ last' = Outcome("get_final_result", <<a0>>, make_result("final", rec, text_ok),
                                   <<Call("vosk_recognizer_final_result", rec, <<>>, <<ResultText(text_ok)>>)>>)
    /\ loadState' = IF Aborted(last'.ret) THEN "aborted" ELSE loadState
    /\ UNCHANGED <<MODEL_TYPE, RECOGNIZER_TYPE, logLevel, rtype, ptr, refc, held, dtorRuns, inflight>>

\* reset_recognizer_nif returning ok without the engine call.
reset_recognizer_nif_noop(a0) ==
    /\ loadState = "loaded"
    /\ Scheduled("reset_recognizer")
    /\ IF ~enif_get_resource(a0, RECOGNIZER_TYPE)
       THEN last' = Outcome("reset_recognizer", <<a0>>, Badarg, <<>>)
       ELSE last' = Outcome("reset_recognizer", <<a0>>, Ok, <<>>)
    /\ UNCHANGED <<loadVars, logLevel, resVars>>

\* static ERL_NIF_TERM reset_recognizer_nif(env, argc, argv)
reset_recognizer_nif(a0) ==
    /\ loadState = "loaded"
    /\ Scheduled("reset_recognizer")
    /\ IF ~enif_get_resource(a0, RECOGNIZER_TYPE)
       THEN /\ last' = Outcome("reset_recognizer", <<a0>>, Badarg, <<>>)
            /\ UNCHANGED native
       ELSE LET rec == ptr[a0.val[1]]
            IN  /\ native' = vosk_recognizer_clear(rec)
                /\ last' = Outcome("reset_recognizer", <<a0>>, Ok,
                                   <<Call("vosk_recognizer_reset", rec, <<>>, <<>>)>>)
    /\ UNCHANGED <<loadVars, logLevel, rtype, ptr, refc, held, dtorRuns, inflight>>

\* ------------------------------------------------------------ the environment
\* The handle arguments a host process can pass: a term it holds, or one of the
\* given terms that are no resources at all.
Handles(junk) == {ResTerm(r) : r \in {q \in ResIds : held[q] >= 1}} \cup junk

\* A process that calls a function which returns at once.
Suspended_none(r) == 0

\* The host processes suspended in a call on resource r: accept_waveform_nif
\* returns the engine's status itself, so the process that called it does not
\* run again before the engine call has returned.
Suspended(r) == Len(inflight[r])

\* The handle arguments of the calls that can be issued now. When every term is
\* owned by one process that keeps it (A.own), a term whose owner is suspended
\* in a call cannot be passed.
HandlesOf(A) ==
    IF A.own
    THEN {h \in Handles(A.junk) : h.tag = "resource" => Suspended(h.val[1]) < held[h.val[1]]}
    ELSE Handles(A.junk)

\* The arguments the host passes when the resource lifetimes are explored:
\* well-typed ones, so that every call reaches the engine.
LifeArgs ==
    [lim       |-> MaxRes - 1,
     junk      |-> {},
     load_info |-> {IntTerm(0)},
     level     |-> {IntTerm(0)},
     path      |-> {BinTerm(4, 1)},
     word      |-> {BinTerm(3, 1)},
     idx       |-> {-1},
     rate      |-> {FloatTerm(16000)},
     int       |-> {IntTerm(0)},
     words     |-> {IntTerm(0)},
     audio     |-> {BinTerm(2, 1)},
     status    |-> {0},
     res_ok    |-> {TRUE},
     text_ok   |-> {TRUE},
     own       |-> FALSE]

\* The arguments the host passes when the argument checks are explored: sizes
\* on both sides of the two buffer capacities, and terms of every type.
CallArgs ==
    [lim       |-> 2,
     junk      |-> {AtomTerm("nil")},
     load_info |-> {IntTerm(1), IntTerm(INT_MAX + 1), AtomTerm("nil")},
     level     |-> {IntTerm(1), IntTerm(INT_MIN - 1), FloatTerm(1), AtomTerm("nil")},
     path      |-> {BinTerm(0, 1), BinTerm(4, 0), BinTerm(PATH_CAP - 1, 1), BinTerm(PATH_CAP, 1),
                    BinTerm(PATH_CAP + 1, 1), IntTerm(4), AtomTerm("nil")},
     word      |-> {BinTerm(0, 1), BinTerm(3, 2), BinTerm(WORD_CAP - 1, 1), BinTerm(WORD_CAP, 1),
                    BinTerm(WORD_CAP + 1, 1), AtomTerm("nil")},
     idx       |-> {-1, 7},
     rate      |-> {FloatTerm(16000), IntTerm(16000), AtomTerm("nil")},
     int       |-> {IntTerm(1), IntTerm(INT_MAX + 1), FloatTerm(1), AtomTerm("nil")},
     words     |-> {IntTerm(1), IntTerm(INT_MAX + 1), FloatTerm(1), AtomTerm("nil")},
     audio     |-> {BinTerm(2, 1), IntTerm(2)},
     status    |-> {-1, 0, 1},
     res_ok    |-> {TRUE},
     text_ok   |-> {TRUE},
     own       |-> FALSE]

\* The callbacks the runtime makes on behalf of host processes: load once, then
\* the exported functions of nif_funcs.
Calls(A) ==
    \/ \E t \in A.load_info, mt \in {NULL, MODEL_RT}, rt \in {NULL, RECOGNIZER_RT} :
           load(t, mt, rt)
    \/ \E t \in A.level : set_log_level_nif(t)
    \/ \E t \in A.path, ok \in A.res_ok : load_model_nif(t, A.lim, ok)
    \/ \E h \in HandlesOf(A), t \in A.word, i \in A.idx : find_word_nif(h, t, i)
    \/ \E h \in HandlesOf(A), t \in A.rate, ok \in A.res_ok :
           create_recognizer_nif(h, t, A.lim, ok)
    \/ \E h \in HandlesOf(A), t \in A.int : set_max_alternatives_nif(h, t)
    \/ \E h \in HandlesOf(A), t \in A.words : set_words_nif(h, t)
    \/ \E h \in HandlesOf(A), t \in A.int : set_partial_words_nif(h, t)
    \/ \E h \in HandlesOf(A), t \in A.audio : accept_waveform_nif(h, t)
    \/ \E r \in ResIds, st \in A.status : accept_waveform_return(r, st)
    \/ \E h \in HandlesOf(A), ok \in A.text_ok : get_result_nif(h, ok)
    \/ \E h \in HandlesOf(A), ok \in A.text_ok : get_partial_result_nif(h, ok)
    \/ \E h \in HandlesOf(A), ok \in A.text_ok : get_final_result_nif(h, ok)
    \/ \E h \in HandlesOf(A) : reset_recognizer_nif(h)

\* What the runtime does with handle terms and resource objects.
Runtime ==
    \/ \E r \in ResIds : HostCopy(r)
    \/ \E r \in ResIds : HostDrop(r)
    \/ \E r \in ResIds : GCDestructor(r)
    \/ \E r \in ResIds : DestructorAgain(r)

Next == Calls(LifeArgs) \/ Runtime
NextArgs == Calls(CallArgs)

\* Every sequence of well-typed calls, handle copies and drops, and destructor runs.
Spec == Init /\ [][Next]_vars

\* Every sequence of calls, well-typed or not, by hosts that keep their handles.
SpecArgs == Init /\ [][NextArgs]_vars

\* The arguments of LifeArgs, with two resource objects at most (a model and a
\* recognizer, or two models).
FairArgs == [LifeArgs EXCEPT !.lim = 2]
NextFair == Calls(FairArgs) \/ Runtime

\* The arguments of LifeArgs, with every outcome of the collaborators: the
\* resource allocation and the engine's result functions may return NULL.
FaultArgs == [LifeArgs EXCEPT !.lim = 2, !.res_ok = BOOLEAN, !.text_ok = BOOLEAN]
NextFaults == Calls(FaultArgs) \/ Runtime

\* Every sequence of well-typed calls under every outcome of the collaborators.
SpecFaults == Init /\ [][NextFaults]_vars

\* The arguments of LifeArgs for three resource objects (a model and two
\* recognizers created from it), with set_words switching the option on.
SessionArgs == [LifeArgs EXCEPT !.lim = 3, !.words = {IntTerm(1)}]
NextSession ==
    \/ Calls(SessionArgs)
    \/ \E r \in ResIds : rtype[r] = RECOGNIZER_RT /\ HostDrop(r)
    \/ \E r \in ResIds : rtype[r] = RECOGNIZER_RT /\ GCDestructor(r)

\* Every sequence of well-typed calls on the recognizers of one model, by host
\* processes that keep the model handle and drop recognizer handles.
SpecSession == Init /\ [][NextSession]_vars

\* The arguments of SessionArgs for host processes that each own the handle
\* terms they hold, and copy them to further processes.
SharedArgs == [SessionArgs EXCEPT !.own = TRUE]
NextShared ==
    \/ Calls(SharedArgs)
    \/ \E r \in ResIds : Suspended(r) < held[r] /\ HostCopy(r)

\* Every sequence of well-typed calls by host processes that share handles and
\* keep them: a session is driven by as many processes as hold its handle.
SpecShared == Init /\ [][NextShared]_vars

\* The arguments of LifeArgs with audio buffers of sizes on both sides of the
\* largest int, and every sign of the engine's status.
AudioArgs ==
    [LifeArgs EXCEPT !.lim = 2,
                     !.audio = {BinTerm(2, 1), BinTerm(INT_MAX, 1), BinTerm(INT_MAX + 1, 1)},
                     !.status = {-1, 0, 1}]
NextAudio == Calls(AudioArgs)

\* Every sequence of well-typed calls with audio buffers of every size.
SpecAudio == Init /\ [][NextAudio]_vars

\* The runs in which the runtime does run the destructor of an unreferenced
\* object, and an engine call that started does return.
FairSpec ==
    /\ Init /\ [][NextFair]_vars
    /\ \A r \in ResIds : WF_vars(GCDestructor(r))
    /\ \A r \in ResIds : WF_vars(\E st \in FairArgs.status : accept_waveform_return(r, st))

\* ======================================================================
\* Properties
\* ======================================================================
DestructorOps == {"model_destructor", "recognizer_destructor"}
FreeFns == {"vosk_model_free", "vosk_recognizer_free"}
NoHandleFns == {"vosk_set_log_level", "vosk_model_new"}
ModelOps == {"find_word", "create_recognizer"}
RecognizerOps == {"set_max_alternatives", "set_words", "set_partial_words", "accept_waveform",
                  "get_result", "get_partial_result", "get_final_result", "reset_recognizer"}
ExportedOps == {"set_log_level", "load_model"} \cup ModelOps \cup RecognizerOps

IsOkHandle(ret) == ret.tag = "tuple" /\ ret.val[1] = AtomTerm("ok")
IsError(ret, reason) ==
    ret.tag = "tuple" /\ ret.val[1] = AtomTerm("error") /\ ret.val[2] = AtomTerm(reason)

\* C1: the model destructor (vosk_model_free) never runs for a model while a
\* recognizer created from that model has not had its own destructor run.
C1_ModelOutlivesRecognizers ==
    \A r \in ResIds :
        (rtype[r] = RECOGNIZER_RT /\ dtorRuns[r] = 0 /\ ptr[r] # NULL)
            => native[native[ptr[r]].model].frees = 0

\* C2: the engine's free function is called at most once for every engine
\* object, however often the destructor callback is invoked: the first
\* invocation frees the object and stores NULL, a later one finds NULL, calls
\* nothing and frees nothing.
C2_IdempotentDestruction ==
    /\ \A n \in ResIds : native[n].frees <= 1
    /\ \A r \in ResIds : dtorRuns[r] >= 1 => ptr[r] = NULL
    /\ Cardinality({n \in ResIds : native[n].frees = 1})
           = Cardinality({r \in ResIds : dtorRuns[r] >= 1})
    /\ (last.op \in DestructorOps /\ dtorRuns[last.args[1].val[1]] >= 2) => last.calls = <<>>

\* A destructor has been invoked a second time on the same resource.
C2_Witness ==
    /\ last.op \in DestructorOps
    /\ dtorRuns[last.args[1].val[1]] >= 2

\* C3: no exported function passes the engine a handle pointer that is NULL or
\* that has been freed, and the engine's free functions are called by the two
\* destructors only.
C3_NoUseAfterDestruction ==
    \A i \in DOMAIN last.calls :
        LET c == last.calls[i]
        IN  IF c.fn \in FreeFns
            THEN last.op \in DestructorOps
            ELSE c.fn \notin NoHandleFns => (c.ptr # NULL /\ native[c.ptr].frees = 0)

\* An exported function has passed a handle pointer to the engine after the
\* destructor of another resource has run.
C3_Witness ==
    /\ last.op \in RecognizerOps
    /\ last.calls # <<>>
    /\ \E r \in ResIds : dtorRuns[r] >= 1

\* C4: while an accept_waveform call on a recognizer is executing, the
\* destructor of that recognizer has not run and its engine object is not freed.
C4_NoDestructionInFlight ==
    \A r \in ResIds :
        inflight[r] # <<>> =>
            /\ dtorRuns[r] = 0
            /\ ptr[r] # NULL
            /\ native[ptr[r]].frees = 0

\* An accept_waveform call is executing on a recognizer to which no host
\* process holds a term any more.
C4_Witness == \E r \in ResIds : inflight[r] # <<>> /\ held[r] = 0

\* C5: an engine object returned as {ok, Handle} belongs to one resource object,
\* which the returned term alone refers to when the call returns; it is not
\* freed while a host term refers to the resource; once no host term does, the
\* engine's free function runs for it, and it never runs twice.
C5_ExactlyOnceReclamation ==
    /\ [](\A r \in ResIds : held[r] >= 1 => (ptr[r] # NULL /\ native[ptr[r]].frees = 0))
    /\ [](\A n \in ResIds : native[n].kind # "none" => (rtype[n] # NULL /\ ptr[n] \in {n, NULL}))
    /\ [](\A n \in ResIds : native[n].frees <= 1)
    /\ [][\A r \in ResIds :
              (rtype[r] = NULL /\ rtype'[r] # NULL) => (refc'[r] = 1 /\ held'[r] = 1)]_vars
    /\ \A r \in ResIds : (rtype[r] # NULL /\ held[r] = 0) ~> (native[r].frees = 1)

\* A resource whose last host term was dropped has had its engine object freed.
C5_Witness ==
    \E r \in ResIds :
        /\ rtype[r] # NULL
        /\ held[r] = 0
        /\ dtorRuns[r] = 1
        /\ native[r].frees = 1

\* A resource handle of the given type, as the host held it before the call.
IsHandleOf(h, type) == h.tag = "resource" /\ rtype[h.val[1]] = type

\* C6: load_model with a path binary of 1024 bytes or more, and find_word with
\* a word binary of 256 bytes or more, return the argument error, call no
\* engine function and allocate nothing; a path shorter than 1024 bytes, and a
\* word shorter than 256 bytes looked up in a model handle, are not refused.
C6_BoundsEnforcement ==
    [][/\ (last'.op = "load_model" /\ last'.args[1].tag = "binary") =>
              IF BinSize(last'.args[1]) >= PATH_CAP
              THEN last'.ret.tag = "badarg" /\ last'.calls = <<>> /\ UNCHANGED resVars
              ELSE last'.ret.tag # "badarg"
       /\ (last'.op = "find_word" /\ last'.args[2].tag = "binary") =>
              IF BinSize(last'.args[2]) >= WORD_CAP
              THEN last'.ret.tag = "badarg" /\ last'.calls = <<>> /\ UNCHANGED resVars
              ELSE IsHandleOf(last'.args[1], MODEL_RT) => last'.ret.tag # "badarg"
      ]_vars

\* load_model has refused a path of exactly 1024 bytes.
C6_Witness ==
    /\ last.op = "load_model"
    /\ last.args[1].tag = "binary"
    /\ BinSize(last.args[1]) = PATH_CAP
    /\ last.ret.tag = "badarg"

\* C7: the string handed to vosk_model_new or vosk_model_find_word is a buffer
\* of the array's capacity that holds the bytes of the input binary followed by
\* a NUL at index size, where size is at most capacity - 1; nothing is written
\* at another index.
C7_TerminatedBuffers ==
    \A i \in DOMAIN last.calls :
        LET c == last.calls[i]
        IN  c.fn \in {"vosk_model_new", "vosk_model_find_word"} =>
                LET buf == c.arg[1]
                    input == IF c.fn = "vosk_model_new" THEN last.args[1] ELSE last.args[2]
                    cap == IF c.fn = "vosk_model_new" THEN PATH_CAP ELSE WORD_CAP
                IN  /\ input.tag = "binary"
                    /\ buf.cap = cap
                    /\ BinSize(input) <= cap - 1
                    /\ DOMAIN buf.mem = 0..BinSize(input)
                    /\ buf.mem[BinSize(input)] = 0
                    /\ \A j \in 0..(BinSize(input) - 1) : buf.mem[j] = ByteAt(input, j)

\* vosk_model_new has been called with the longest path that fits.
C7_Witness ==
    /\ last.op = "load_model"
    /\ last.calls # <<>>
    /\ BinSize(last.args[1]) = PATH_CAP - 1

\* C8: a recognizer function called with anything but a recognizer handle, and
\* a model function called with anything but a model handle, returns the
\* argument error, calls no engine function and changes no model or recognizer.
C8_TypeConfusionRejected ==
    [][(\/ last'.op \in RecognizerOps /\ ~IsHandleOf(last'.args[1], RECOGNIZER_RT)
        \/ last'.op \in ModelOps /\ ~IsHandleOf(last'.args[1], MODEL_RT))
           => /\ last'.ret.tag = "badarg"
              /\ last'.calls = <<>>
              /\ UNCHANGED <<resVars, logLevel>>
      ]_vars

\* set_words has refused a model handle.
C8_Witness ==
    /\ last.op = "set_words"
    /\ IsHandleOf(last.args[1], MODEL_RT)
    /\ last.ret.tag = "badarg"

\* The argument types of the exported functions.
Sig(op) ==
    CASE op = "set_log_level" -> <<"int">>
      [] op = "load_model" -> <<"binary">>
      [] op = "find_word" -> <<"model", "binary">>
      [] op = "create_recognizer" -> <<"model", "float">>
      [] op \in {"set_max_alternatives", "set_words", "set_partial_words"} -> <<"recognizer", "int">>
      [] op = "accept_waveform" -> <<"recognizer", "binary">>
      [] OTHER -> <<"recognizer">>

HasType(kind, t) ==
    CASE kind = "model" -> IsHandleOf(t, MODEL_RT)
      [] kind = "recognizer" -> IsHandleOf(t, RECOGNIZER_RT)
      [] OTHER -> t.tag = kind

\* C9: an exported function called with an argument of the wrong type, in any
\* position, returns the argument error (not a tagged domain error); and a call
\* that returns the argument error has called no engine function and changed
\* nothing.
C9_NoPartialExecution ==
    [][/\ (/\ last'.op \in ExportedOps
           /\ \E i \in DOMAIN last'.args : ~HasType(Sig(last'.op)[i], last'.args[i]))
              => last'.ret.tag = "badarg"
       /\ last'.ret.tag = "badarg"
              => last'.calls = <<>> /\ UNCHANGED <<resVars, logLevel, loadVars>>
      ]_vars

\* set_words has refused a flag that is no integer, passed with a recognizer handle.
C9_Witness ==
    /\ last.op = "set_words"
    /\ IsHandleOf(last.args[1], RECOGNIZER_RT)
    /\ last.args[2].tag # "int"
    /\ last.ret.tag = "badarg"

\* C10: when vosk_model_new returns NULL load_model returns
\* {error, model_load_failed}, and when vosk_recognizer_new returns NULL
\* create_recognizer returns {error, recognizer_creation_failed}; the call
\* allocates no resource and changes no existing resource or engine object.
C10_DomainFailures ==
    [][\A i \in DOMAIN last'.calls :
           LET c == last'.calls[i]
           IN  (/\ last' # last
                /\ c.fn \in {"vosk_model_new", "vosk_recognizer_new"}
                /\ c.out = <<NULL>>)
                   => /\ IsError(last'.ret, IF c.fn = "vosk_model_new"
                                            THEN "model_load_failed"
                                            ELSE "recognizer_creation_failed")
                      /\ UNCHANGED resVars
      ]_vars

\* create_recognizer has failed on a model handle that the host still holds.
C10_Witness ==
    /\ last.op = "create_recognizer"
    /\ IsError(last.ret, "recognizer_creation_failed")
    /\ held[last.args[1].val[1]] >= 1
    /\ ptr[last.args[1].val[1]] # NULL

\* C11: no exported operation aborts the host process: whatever the collaborators
\* return (a constructor returning NULL, an engine result function returning a
\* NULL string, enif_alloc_resource returning NULL), the operation returns a
\* value to its caller and dereferences no null pointer.
C11_NoAbort ==
    /\ loadState # "aborted"
    /\ last.op \in ExportedOps => ~Aborted(last.ret)

\* C12: accept_waveform is the only offloaded operation: every call of it, and
\* the whole of the call, executes on a dirty CPU scheduler, and every call of
\* the other eleven exported operations executes inline on the scheduler thread
\* of the caller.
C12_OnlyAcceptWaveformOffloaded ==
    /\ DOMAIN nif_funcs = ExportedOps
    /\ Cardinality(ExportedOps \ {"accept_waveform"}) = 11
    /\ last.op \in {"accept_waveform", "accept_waveform_return"} => last.thread = "dirty_cpu"
    /\ last.op \in ExportedOps \ {"accept_waveform"} => last.thread = "scheduler"

\* An accept_waveform call has run to its end on the dirty CPU scheduler.
C12_Witness ==
    /\ last.op = "accept_waveform_return"
    /\ last.thread = "dirty_cpu"
    /\ last.ret.tag = "int"

\* C13: offload does not stall the host: in every state in which an
\* accept_waveform call on a session A is executing, a set_words call on any
\* other live session B can start, execute and return ok at once, with A's call
\* still executing afterwards.
C13_OffloadDoesNotStall ==
    \A a, b \in ResIds :
        (a # b /\ inflight[a] # <<>> /\ rtype[b] = RECOGNIZER_RT /\ held[b] >= 1)
            => ENABLED (/\ set_words_nif(ResTerm(b), IntTerm(1))
                        /\ last'.ret = Ok
                        /\ inflight'[a] = inflight[a])

\* A set_words call on one session has returned ok while an accept_waveform
\* call on another session is still executing.
C13_Witness ==
    \E a, b \in ResIds :
        /\ a # b
        /\ inflight[a] # <<>>
        /\ last.op = "set_words"
        /\ last.args[1] = ResTerm(b)
        /\ last.ret = Ok
        /\ last.thread = "scheduler"

\* An inline call has accessed the native state of session r on a scheduler
\* thread while an accept_waveform call on r is executing on a dirty worker.
Overlap(r) ==
    /\ inflight[r] # <<>>
    /\ last.op \in RecognizerOps
    /\ last.thread = "scheduler"
    /\ last.calls # <<>>
    /\ last.calls[1].ptr = ptr[r]

IsSession(r) == rtype[r] = RECOGNIZER_RT /\ ptr[r] # NULL

\* The step is an operation on session r, its destruction included.
OperationOn(r) ==
    /\ last'.op \in RecognizerOps \cup {"accept_waveform_return", "recognizer_destructor"}
    /\ last'.args[1] = ResTerm(r)

\* C15: session isolation: for two live sessions A and B created from the same
\* model, every operation on A, A's destruction included, leaves B's decoding
\* state, B's configuration and B's executing calls unchanged.
C15_SessionIsolation ==
    [][\A a, b \in ResIds :
          (/\ a # b /\ IsSession(a) /\ IsSession(b)
           /\ native[ptr[a]].model = native[ptr[b]].model
           /\ OperationOn(a))
              => /\ native'[ptr[b]] = native[ptr[b]]
                 /\ ptr'[b] = ptr[b]
                 /\ inflight'[b] = inflight[b]]_vars

\* Session A has been destroyed while session B of the same model keeps the
\* option it was given and the audio it has decoded.
C15_Witness ==
    \E a, b \in ResIds :
        /\ a # b
        /\ last.op = "recognizer_destructor"
        /\ last.args[1] = ResTerm(a)
        /\ last.calls # <<>>
        /\ IsSession(b)
        /\ native[ptr[b]].model = native[last.calls[1].ptr].model
        /\ native[ptr[b]].words = 1
        /\ native[ptr[b]].fed = 1

\* C16: initialization gates everything: load runs once, before any exported
\* operation, and registers both resource kinds; when either registration fails
\* load returns non-zero, the module is not loaded, and no operation is ever
\* invoked and no handle ever created; when load succeeds both resource types
\* are non-null and stay as registered for the rest of the emulator's life.
C16_InitializationGates ==
    /\ [](/\ loadState = "unloaded" => last.op = "none"
          /\ loadState = "failed" =>
                 /\ MODEL_TYPE = NULL \/ RECOGNIZER_TYPE = NULL
                 /\ last.op = "load" /\ last.ret # IntTerm(0)
          /\ loadState = "loaded" => MODEL_TYPE = MODEL_RT /\ RECOGNIZER_TYPE = RECOGNIZER_RT
          /\ loadState # "loaded" => \A r \in ResIds : rtype[r] = NULL /\ held[r] = 0
          /\ last.op \in ExportedOps \cup DestructorOps => loadState = "loaded")
    /\ [][loadState # "unloaded" =>
              /\ UNCHANGED <<loadState, MODEL_TYPE, RECOGNIZER_TYPE>>
              /\ last'.op = "load" => last' = last]_vars

\* The model type was registered and the recognizer type was not: load has
\* returned non-zero and nothing can be called.
C16_Witness ==
    /\ loadState = "failed"
    /\ MODEL_TYPE = MODEL_RT
    /\ RECOGNIZER_TYPE = NULL
    /\ last.op = "load"
    /\ last.ret = IntTerm(1)

\* The partial result of a recognizer that has just been created.
FreshPartial ==
    [tag |-> "string", val |-> <<"partial", [NoNative EXCEPT !.kind = "recognizer"].fed>>]

\* C17: reset restores the clean state: once reset_recognizer has returned ok on
\* a session, a get_partial_result call on that session is accepted (the handle
\* remains usable) and returns the partial result of a freshly created
\* recognizer.
C17_ResetRestoresClean ==
    \A r \in ResIds :
        (/\ last.op = "reset_recognizer" /\ last.ret = Ok
         /\ last.args[1] = ResTerm(r) /\ held[r] >= 1)
            => /\ native[ptr[r]].fed = 0
               /\ ENABLED (/\ get_partial_result_nif(ResTerm(r), TRUE)
                           /\ last'.ret = FreshPartial)

\* reset_recognizer has returned ok on a session whose handle the host holds.
C17_Witness ==
    \E r \in ResIds :
        /\ last.op = "reset_recognizer"
        /\ last.ret = Ok
        /\ last.args[1] = ResTerm(r)
        /\ last.calls[1].fn = "vosk_recognizer_reset"
        /\ held[r] >= 1

\* The engine function a recognizer operation forwards to.
EngineFn(op) ==
    [set_max_alternatives |-> "vosk_recognizer_set_max_alternatives",
     set_words |-> "vosk_recognizer_set_words",
     set_partial_words |-> "vosk_recognizer_set_partial_words",
     accept_waveform |-> "vosk_recognizer_accept_waveform",
     get_result |-> "vosk_recognizer_result",
     get_partial_result |-> "vosk_recognizer_partial_result",
     get_final_result |-> "vosk_recognizer_final_result",
     reset_recognizer |-> "vosk_recognizer_reset"][op]

\* The normal result of a recognizer operation: ok for the setters and reset,
\* the engine's status for accept_waveform (none yet while the engine call is
\* executing), the engine's text for the result operations.
NormalResult(op, ret) ==
    CASE op \in {"set_max_alternatives", "set_words", "set_partial_words", "reset_recognizer"}
             -> ret = Ok
      [] op = "accept_waveform" -> ret = Pending
      [] op = "accept_waveform_return" -> ret.tag = "int"
      [] OTHER -> ret.tag = "string"

\* The call passes the handle of a recognizer session and well-typed arguments.
ValidCall(op, args) ==
    /\ args[1].tag = "resource"
    /\ rtype[args[1].val[1]] = RECOGNIZER_RT
    /\ op \in {"set_max_alternatives", "set_words", "set_partial_words"} => enif_get_int(args[2])
    /\ op = "accept_waveform" => enif_inspect_binary(args[2])

C19_LogLevelAtLoad ==
    /\ last.op = "load" =>
           LET info == last.args[1]
               level == IF info.tag = "int" THEN info.val[1] ELSE SILENT
           IN  logLevel = level /\ last.calls[1].arg = <<level>>
    /\ (last.op = "set_log_level" /\ last.args[1].tag # "int") =>
           last.ret = Badarg /\ last.calls = <<>>

\* C19 amended: the log level set during load equals the integer supplied as
\* load_info whenever that integer is in the range of a C int, and -1 whenever
\* load_info is not an integer or is an integer out of that range;
\* set_log_level called with a non-integer returns badarg, makes no engine call
\* and leaves the log level unchanged.
C19_LogLevelAtLoadInRange ==
    /\ [](/\ last.op = "load" =>
                 LET info == last.args[1]
                     level == IF info.tag = "int" /\ info.val[1] >= INT_MIN
                                                 /\ info.val[1] <= INT_MAX
                              THEN info.val[1] ELSE SILENT
                 IN  logLevel = level /\ last.calls[1].arg = <<level>>
          /\ (last.op = "set_log_level" /\ last.args[1].tag # "int") =>
                 last.ret = Badarg /\ last.calls = <<>>)
    /\ [][(last'.op = "set_log_level" /\ last'.args[1].tag # "int") =>
              logLevel' = logLevel]_vars

\* load was given an integer beyond the range of int and has made the engine
\* silent.
C19_Witness ==
    /\ last.op = "load"
    /\ last.args[1] = IntTerm(INT_MAX + 1)
    /\ logLevel = SILENT
    /\ last.calls[1].arg = <<SILENT>>

\* C20: accept_waveform forwards faithfully: the length handed to
\* vosk_recognizer_accept_waveform equals the byte size of the audio binary,
\* with no wrap-around or change of sign when the size_t is passed as an int,
\* sizes above the largest int included; and the integer returned is one the
\* engine returned as its status, positive, zero or negative.
C20_FaithfulForwarding ==
    /\ (last.op = "accept_waveform" /\ last.calls # <<>>) =>
           /\ last.calls[1].fn = "vosk_recognizer_accept_waveform"
           /\ last.calls[1].arg = <<BinSize(last.args[2])>>
    /\ last.op = "accept_waveform_return" =>
           last.ret.tag = "int" /\ last.ret.val[1] \in AudioArgs.status

=============================================================================
